---- MODULE Spec2Model ----
(***************************************************************************)
(* SimAnnealingWorkChain (aiida_lsmo/workchains/sim_annealing.py) as a     *)
(* state machine: the outline                                              *)
(*   setup, while_(should_run_nvt)(run_raspa_nvt), run_raspa_min,          *)
(*   return_results                                                        *)
(* driven by the engine, which runs one outline step at a time and, when a *)
(* step returns ToContext(...), waits for the awaited sub-process to       *)
(* terminate before it runs the next step.                                 *)
(*                                                                         *)
(* Python dictionaries are functions whose DOMAIN is the set of keys that  *)
(* are present; Python lists are sequences.                                *)
(***************************************************************************)
EXTENDS Integers, Sequences, FiniteSets, TLC

VARIABLES
    pc,            \* position of the work chain in its outline
    inputs,        \* self.inputs, what the caller launched the work chain with
    ctx,           \* self.ctx, a dictionary: an attribute exists once it is set
    awaitables,    \* what the engine waits for before it runs the next step
    calcs,         \* every submitted RaspaBaseWorkChain, in submission order
    outputs,       \* the outputs emitted with self.out, a dictionary
    ff_builds,     \* number of FFBuilder invocations
    evals          \* one entry per evaluation of should_run_nvt

vars == <<pc, inputs, ctx, awaitables, calcs, outputs, ff_builds, evals>>

----------------------------------------------------------------------------
(* Bounds of the model *)

\* longest temperature_list a caller passes explicitly
MaxSchedule == 2

\* at most this many sub-processes of one run resolve other than finished
\* with exit status 0 and complete outputs
MaxAnomalies == 1

(* Python values *)

EmptyDict == [k \in {} |-> 0]

\* dict.update / item assignment: the keys of u override those of d
Update(d, u) == [k \in DOMAIN d \cup DOMAIN u |-> IF k \in DOMAIN u THEN u[k] ELSE d[k]]

PyInt(n) == [type |-> "int", num |-> n, den |-> 1]

\* a / b of two ints is a float in Python 3, whatever the operands
TrueDiv(a, b) == [type |-> "float", num |-> a, den |-> b]

\* str.format with positional arguments: the template and what fills it
Format(template, args) == [text |-> template, args |-> args]

\* list[i], negative indices counting from the end; "IndexError" when out of range
InRange(list, i) == -Len(list) <= i /\ i < Len(list)

PyIndex(list, i) == IF i >= 0 THEN list[i + 1] ELSE list[Len(list) + i + 1]

----------------------------------------------------------------------------
(* The inputs of a run *)

Temperatures == {300, 100}

RECURSIVE SeqsUpTo(_, _)
SeqsUpTo(S, n) ==
    IF n = 0 THEN {<<>>}
    ELSE LET shorter == SeqsUpTo(S, n - 1)
         IN  shorter \cup {Append(s, x) : s \in {t \in shorter : Len(t) = n - 1}, x \in S}

\* a value of the raw parameters Dict: its Python type and, for ints and
\* lists, its content
RawInt(n) == [type |-> "int", val |-> <<n>>]
RawList(s) == [type |-> "list", val |-> s]
RawStr == [type |-> "str", val |-> <<>>]

RawTemperatureLists == {RawList(s) : s \in SeqsUpTo(Temperatures, MaxSchedule)} \cup {RawStr}
RawMcSteps == {RawInt(150), RawStr}
RawNumberOfMolecules == {RawInt(2), RawStr}

\* the raw Dicts a caller can pass: any of the three keys may be missing,
\* and an unknown key may be present
RawParameters ==
    { Update(Update(Update(t, m), n), x) :
        t \in {EmptyDict} \cup {[temperature_list |-> v] : v \in RawTemperatureLists},
        m \in {EmptyDict} \cup {[mc_steps |-> v] : v \in RawMcSteps},
        n \in {EmptyDict} \cup {[number_of_molecules |-> v] : v \in RawNumberOfMolecules},
        x \in {EmptyDict, [no_such_field |-> RawInt(1)]} }


\* self.inputs.molecule: a Str naming a molecule of the yaml, or a Dict
N2Dict == [name |-> "n2", forcefield |-> "TraPPE", singlebead |-> FALSE, charged |-> TRUE]

XenonDict == [name |-> "xenon", forcefield |-> "UFF", singlebead |-> TRUE, charged |-> FALSE]

InputMolecules ==
    {[type |-> "Str", value |-> "co2"], [type |-> "Dict", value |-> N2Dict], [type |-> "Dict", value |-> XenonDict]}

\* the folder a caller can pass as raspa_base.raspa.retrieved_parent_folder;
\* the retrieved folder of the k-th submitted sub-process is folder k
CallerFolder == [folder |-> 0, positions |-> 0]

\* the inputs exposed from RaspaBaseWorkChain under namespace raspa_base:
\* all of its inputs but raspa.structure and raspa.parameters
ExposedInputs ==
    { [raspa |-> r, metadata |-> EmptyDict] :
        r \in {EmptyDict, [retrieved_parent_folder |-> CallerFolder], [block_pocket |-> "block_pocket"]} }

Inputs ==
    { [structure |-> "structure", molecule |-> m, parameters |-> p, raspa_base |-> e] :
        m \in InputMolecules, p \in RawParameters, e \in ExposedInputs }

----------------------------------------------------------------------------
(* The parameters schema *)

DefaultTemperatureList == <<300, 250, 200, 250, 100, 50>>
DefaultMcSteps == 1000
DefaultNumberOfMolecules == 1

\* the schema shared by the work chains: its keys are required, with defaults,
\* and a key it does not name is rejected
FF_PARAMETERS_VALIDATOR ==
    [types |-> [ff_cutoff |-> "float"],
     defaults |-> [ff_cutoff |-> "12.0"],
     prevent_extra |-> TRUE]

\* Schema.extend: the keys of the extension are added, the policy on unknown
\* keys is kept
Extend(schema, types, defaults) ==
    [types |-> Update(schema.types, types),
     defaults |-> Update(schema.defaults, defaults),
     prevent_extra |-> schema.prevent_extra]

parameters_schema_types_mc_str ==
    [temperature_list |-> "list", mc_steps |-> "str", number_of_molecules |-> "int"]

parameters_schema_types == [temperature_list |-> "list", mc_steps |-> "int", number_of_molecules |-> "int"]

parameters_schema ==
    Extend(FF_PARAMETERS_VALIDATOR,
           parameters_schema_types,
           [temperature_list |-> DefaultTemperatureList,
            mc_steps |-> DefaultMcSteps,
            number_of_molecules |-> DefaultNumberOfMolecules])

\* schema(data) raises Invalid unless every key is known and every value is
\* an instance of the type declared for its key
SchemaAccepts(schema, raw) ==
    /\ schema.prevent_extra => DOMAIN raw \subseteq DOMAIN schema.types
    /\ \A k \in DOMAIN raw \cap DOMAIN schema.types : raw[k].type = schema.types[k]

RawValue(v) == IF v.type = "int" THEN v.val[1] ELSE v.val

\* schema(data) returns the data with the missing keys set to their defaults
SchemaFill(schema, raw) ==
    [k \in DOMAIN schema.types |-> IF k \in DOMAIN raw THEN RawValue(raw[k]) ELSE schema.defaults[k]]

\* the validator of the parameters input port
validate_dict(dict_node, schema) == SchemaAccepts(schema, dict_node)

----------------------------------------------------------------------------
(* Collaborators of setup *)

\* the molecule of the yaml with the given name
get_molecule_dict(name) ==
    [name |-> name, forcefield |-> "TraPPE", singlebead |-> FALSE, charged |-> TRUE]

\* the Dict handed to the force-field builder
get_ff_parameters(mol, params) == [ff_molecule |-> mol.name, ff_cutoff |-> params.ff_cutoff]

\* the force-field files built from ff_params
FFBuilder(ff_params) == [built_from |-> ff_params]

\* the replication of the unit cell for a cutoff
check_resize_unit_cell(structure, threshold) == <<1, 1, 1>>

\* the atoms the yaml declares for a molecule and force field
\* (each atom type is the text before and after its first underscore)
load_yaml(name, forcefield) ==
    CASE name = "co2" -> <<<<"C", "co2">>, <<"O", "co2">>, <<"O", "co2">>>>
      [] name = "n2" -> <<<<"N", "n2">>, <<"M", "n2">>, <<"N", "n2">>>>
      [] OTHER -> <<<<"Xe", "">>>>

----------------------------------------------------------------------------
(* _get_raspa_nvt_param: the base document of an NVT stage *)

get_raspa_nvt_param(c, in) ==
    LET name == c.molecule.name
        mult == check_resize_unit_cell(in.structure, <<2, c.parameters.ff_cutoff>>)
        general ==
            [SimulationType |-> "MonteCarlo",
             NumberOfCycles |-> c.parameters.mc_steps,
             PrintPropertiesEvery |-> "10000000000",
             PrintEvery |-> TrueDiv(c.parameters.mc_steps, 100),
             RemoveAtomNumberCodeFromLabel |-> TRUE,
             Forcefield |-> "Local",
             UseChargesFromCIFFile |-> "yes",
             CutOff |-> c.parameters.ff_cutoff]
        component ==
            [MoleculeDefinition |-> "Local",
             TranslationProbability |-> "1.0",
             ReinsertionProbability |-> "1.0",
             CreateNumberOfMolecules |-> c.parameters.number_of_molecules]
        component1 ==
            IF "block_pocket" \in DOMAIN c.inp.raspa
            THEN Update(component, [BlockPocketsFileName |-> "block_file"])
            ELSE component
        component2 ==
            IF ~c.molecule.singlebead
            THEN Update(component1, [RotationProbability |-> "1.0"])
            ELSE component1
        general1 ==
            IF c.molecule.charged
            THEN Update(general, [ChargeMethod |-> "Ewald", EwaldPrecision |-> "1e-06"])
            ELSE Update(general, [ChargeMethod |-> "None"])
    IN  [GeneralSettings |-> general1,
         System |-> [framework_1 |-> [type |-> "Framework", UnitCells |-> Format("{} {} {}", mult)]],
         Component |-> (name :> component2)]

\* param['Component'][name][key] = value
SetComponent(param, name, key, value) ==
    [param EXCEPT !.Component = Update(@, name :> Update(@[name], key :> value))]

\* an assignment that would replace the framework block by the one key
SetFramework_replace(param, key, value) ==
    [param EXCEPT !.System = [framework_1 |-> (key :> value)]]

\* param['System']['framework_1'][key] = value
SetFramework(param, key, value) ==
    [param EXCEPT !.System = [@ EXCEPT !.framework_1 = Update(@, key :> value)]]

----------------------------------------------------------------------------
(* The engine *)

\* self.ctx.<key> = value
SetCtx(c, key, value) == Update(c, key :> value)

\* self.ctx.inp['raspa'][key] = value
SetInpRaspa(i, key, value) == [i EXCEPT !.raspa = Update(@, key :> value)]

\* self.ctx.inp['metadata'][key] = value
SetInpMetadata(i, key, value) == [i EXCEPT !.metadata = Update(@, key :> value)]

\* a Dict that would keep the dictionary it was made from instead of its content
Dict_shared(d) == [copied |-> FALSE, attributes |-> d]

\* Dict(dict=...), stored when the sub-process is submitted: the content of
\* the dictionary at that moment
Dict(d) == [copied |-> TRUE, attributes |-> d]

\* self.submit(RaspaBaseWorkChain, **inp): a new sub-process, not yet terminated
Submit(i) == [inputs |-> i, label |-> i.metadata.label, terminated |-> FALSE,
              is_finished_ok |-> FALSE, outputs |-> EmptyDict]

ToContext_none(key, how, pk) == {}

\* return ToContext(key=running) / ToContext(key=append_(running)): the engine
\* waits for the sub-process and then assigns it to, or appends it to, ctx.key
ToContext(key, how, pk) == {[key |-> key, how |-> how, pk |-> pk]}

Init ==
    /\ pc = "created"
    /\ inputs \in Inputs
    /\ ctx = EmptyDict
    /\ awaitables = {}
    /\ calcs = <<>>
    /\ outputs = EmptyDict
    /\ ff_builds = 0
    /\ evals = <<>>

\* the validator of the parameters port runs when the work chain is launched
validate ==
    /\ pc = "created"
    /\ pc' = IF validate_dict(inputs.parameters, parameters_schema) THEN "setup" ELSE "invalid_inputs"
    /\ UNCHANGED <<inputs, ctx, awaitables, calcs, outputs, ff_builds, evals>>

\* a setup that would leave the built files out of the inputs of the stages
attach_files_nowhere(i, files_dict) == i

\* line 214: self.ctx.inp['raspa']['file'] = files_dict
attach_files(i, files_dict) == SetInpRaspa(i, "file", files_dict)

setup ==
    /\ pc = "setup"
    /\ awaitables = {}
    /\ LET mol == IF inputs.molecule.type = "Str"
                  THEN get_molecule_dict(inputs.molecule.value)
                  ELSE inputs.molecule.value
           c1 == SetCtx(ctx, "molecule", mol)
       IN  IF ~SchemaAccepts(parameters_schema, inputs.parameters)
           THEN \* get_valid_dict raises
                /\ ctx' = c1
                /\ pc' = "excepted"
                /\ UNCHANGED ff_builds
           ELSE LET c2 == SetCtx(c1, "parameters", SchemaFill(parameters_schema, inputs.parameters))
                    i1 == SetInpRaspa(inputs.raspa_base, "framework", [framework_1 |-> inputs.structure])
                    c3 == SetCtx(c2, "inp", i1)
                    c4 == SetCtx(c3, "raspa_param", get_raspa_nvt_param(c3, inputs))
                    files_dict == FFBuilder(get_ff_parameters(c4.molecule, c4.parameters))
                    c5 == SetCtx(c4, "inp", attach_files(c4.inp, files_dict))
                IN  /\ ctx' = SetCtx(c5, "count", 0)
                    /\ ff_builds' = ff_builds + 1
                    /\ pc' = "should_run_nvt"
    /\ UNCHANGED <<inputs, awaitables, calcs, outputs, evals>>

----------------------------------------------------------------------------
(* The while_ loop: should_run_nvt and run_raspa_nvt *)

override_at_count_0(c) == c.count = 0

\* line 220: the condition of the CreateNumberOfMolecules override
override_applies(c) == c.count = 1

\* a guard that would admit one iteration more
loop_guard_inclusive(c) == c.count <= Len(c.parameters.temperature_list)

\* line 222: the value should_run_nvt returns
loop_guard(c) == c.count < Len(c.parameters.temperature_list)

should_run_nvt ==
    /\ pc = "should_run_nvt"
    /\ awaitables = {}
    /\ ctx' = IF override_applies(ctx)
              THEN SetCtx(ctx, "raspa_param",
                          SetComponent(ctx.raspa_param, ctx.molecule.name, "CreateNumberOfMolecules", 0))
              ELSE ctx
    /\ pc' = IF loop_guard(ctx) THEN "run_raspa_nvt" ELSE "run_raspa_min"
    /\ evals' = Append(evals, [count |-> ctx.count, override |-> override_applies(ctx)])
    /\ UNCHANGED <<inputs, awaitables, calcs, outputs, ff_builds>>

\* self.ctx.raspa_nvt[i].outputs.retrieved can be evaluated
HasRetrieved(c, i) ==
    /\ "raspa_nvt" \in DOMAIN c
    /\ InRange(c.raspa_nvt, i)
    /\ "retrieved" \in DOMAIN calcs[PyIndex(c.raspa_nvt, i)].outputs

Retrieved(c, i) == calcs[PyIndex(c.raspa_nvt, i)].outputs.retrieved

\* a label that would not count the stages
nvt_label_first(c) == Format("RaspaNVT_{}", <<1>>)

\* line 233
nvt_label(c) == Format("RaspaNVT_{}", <<c.count + 1>>)

nvt_parent_first(c) == 0

\* line 230: the index in raspa_nvt of the stage whose folder is the restart
nvt_parent_index(c) == c.count - 1

nvt_temperature_first(c) == PyIndex(c.parameters.temperature_list, 0)

\* line 227
nvt_temperature(c) == PyIndex(c.parameters.temperature_list, c.count)

run_raspa_nvt ==
    /\ pc = "run_raspa_nvt"
    /\ awaitables = {}
    /\ IF ~InRange(ctx.parameters.temperature_list, ctx.count)
       THEN \* IndexError
            /\ pc' = "excepted"
            /\ UNCHANGED <<ctx, awaitables, calcs>>
       ELSE LET c1 == SetCtx(ctx, "raspa_param",
                             SetFramework(ctx.raspa_param, "ExternalTemperature", nvt_temperature(ctx)))
            IN  IF ctx.count > 0 /\ ~HasRetrieved(ctx, nvt_parent_index(ctx))
                THEN \* the previous stage has no retrieved output
                     /\ ctx' = c1
                     /\ pc' = "excepted"
                     /\ UNCHANGED <<awaitables, calcs>>
                ELSE LET i1 == IF ctx.count > 0
                               THEN SetInpRaspa(c1.inp, "retrieved_parent_folder",
                                                Retrieved(ctx, nvt_parent_index(ctx)))
                               ELSE c1.inp
                         i2 == SetInpRaspa(i1, "parameters", Dict(c1.raspa_param))
                         i3 == SetInpMetadata(i2, "label", nvt_label(ctx))
                         i4 == SetInpMetadata(i3, "call_link_label",
                                              Format("run_raspa_nvt_{}", <<ctx.count + 1>>))
                         c2 == SetCtx(c1, "inp", i4)
                     IN  /\ calcs' = Append(calcs, Submit(i4))
                         /\ ctx' = SetCtx(c2, "count", ctx.count + 1)
                         /\ awaitables' = awaitables \cup ToContext("raspa_nvt", "append", Len(calcs) + 1)
                         /\ pc' = "should_run_nvt"
    /\ UNCHANGED <<inputs, outputs, ff_builds, evals>>

----------------------------------------------------------------------------
(* run_raspa_min *)

\* an update that would replace the general settings instead of updating them
minimization_update_replace(param) ==
    [param EXCEPT !.GeneralSettings =
        [SimulationType |-> "Minimization",
         NumberOfInitializationCycles |-> 0,
         NumberOfCycles |-> 1,
         PrintEvery |-> PyInt(1),
         MaximumNumberOfMinimizationSteps |-> 10000,
         RMSGradientTolerance |-> "1e-06",
         MaxGradientTolerance |-> "1e-06"]]

\* lines 247-255
minimization_update(param) ==
    [param EXCEPT !.GeneralSettings =
        Update(@, [SimulationType |-> "Minimization",
                   NumberOfInitializationCycles |-> 0,
                   NumberOfCycles |-> 1,
                   PrintEvery |-> PyInt(1),
                   MaximumNumberOfMinimizationSteps |-> 10000,
                   RMSGradientTolerance |-> "1e-06",
                   MaxGradientTolerance |-> "1e-06"])]

run_raspa_min ==
    /\ pc = "run_raspa_min"
    /\ awaitables = {}
    /\ LET c1 == SetCtx(ctx, "raspa_param", minimization_update(ctx.raspa_param))
           c2 == SetCtx(c1, "inp", SetInpRaspa(c1.inp, "parameters", Dict(c1.raspa_param)))
       IN  IF ~HasRetrieved(ctx, ctx.count - 1)
           THEN \* no raspa_nvt in the context, or no retrieved output
                /\ ctx' = c2
                /\ pc' = "excepted"
                /\ UNCHANGED <<awaitables, calcs>>
           ELSE LET i1 == SetInpRaspa(c2.inp, "retrieved_parent_folder", Retrieved(ctx, ctx.count - 1))
                    i2 == SetInpMetadata(i1, "label", Format("RaspaMin", <<>>))
                    i3 == SetInpMetadata(i2, "call_link_label", Format("run_raspa_min", <<>>))
                IN  /\ calcs' = Append(calcs, Submit(i3))
                    /\ ctx' = SetCtx(c2, "inp", i3)
                    /\ awaitables' = awaitables \cup ToContext("raspa_min", "assign", Len(calcs) + 1)
                    /\ pc' = "return_results"
    /\ UNCHANGED <<inputs, outputs, ff_builds, evals>>

----------------------------------------------------------------------------
(* A submitted RaspaBaseWorkChain terminates *)

\* lines 72-79
key_list ==
    <<"energy_host/ads_tot_final", "energy_host/ads_vdw_final", "energy_host/ads_coulomb_final",
      "energy_ads/ads_tot_final", "energy_ads/ads_vdw_final", "energy_ads/ads_coulomb_final">>

Keys == {key_list[i] : i \in 1..Len(key_list)}

\* the energies a sub-process is modelled to leave out, one of each group
MissingChoices == {key_list[1], key_list[Len(key_list)]}

\* the output_parameters of sub-process pk, without the keys in missing; the
\* work chain never looks into an energy, so each is the pair that names it
OutputParameters(pk, missing) ==
    [framework_1 |-> [general |-> [k \in Keys \ missing |-> <<pk, k>>]]]

\* the retrieved folder of sub-process pk: its restart file holds `lines`
\* lines tagged Adsorbate-atom-position:
Folder(pk, lines) == [folder |-> pk, positions |-> lines]

\* the number of adsorbate atoms the simulator was asked to keep
ExpectedLines(c) == c.parameters.number_of_molecules * Len(load_yaml(c.molecule.name, c.molecule.forcefield))

Anomalous(calc) ==
    /\ calc.terminated
    /\ \/ ~calc.is_finished_ok
       \/ calc.outputs # [retrieved |-> calc.outputs.retrieved,
                          output_parameters |-> OutputParameters(calc.outputs.retrieved.folder, {})]
       \/ calc.outputs.retrieved.positions # ExpectedLines(ctx)

Anomalies == Cardinality({i \in 1..Len(calcs) : Anomalous(calcs[i])})

\* what a sub-process can terminate with: finished with exit status 0 and
\* complete outputs, or failed with or without outputs, or finished with an
\* energy missing, or (the minimization, whose restart file is read) with
\* another number of position lines
Outcomes(a) ==
    LET good == [retrieved |-> Folder(a.pk, ExpectedLines(ctx)),
                 output_parameters |-> OutputParameters(a.pk, {})]
    IN  {[is_finished_ok |-> TRUE, outputs |-> good]}
        \cup (IF Anomalies < MaxAnomalies
              THEN {[is_finished_ok |-> FALSE, outputs |-> EmptyDict],
                    [is_finished_ok |-> FALSE, outputs |-> good]}
                   \cup {[is_finished_ok |-> TRUE,
                          outputs |-> [good EXCEPT !.output_parameters = OutputParameters(a.pk, {k})]]
                         : k \in MissingChoices}
                   \cup {[is_finished_ok |-> TRUE,
                          outputs |-> [good EXCEPT !.retrieved = Folder(a.pk, n)]]
                         : n \in IF a.key = "raspa_min"
                                 THEN {0, ExpectedLines(ctx) - 1, ExpectedLines(ctx) + 1}
                                 ELSE {}}
              ELSE {})

\* the engine resolves an awaitable: the terminated node goes to the context,
\* appended to ctx.key (append_) or assigned to it
resolve ==
    /\ \E a \in awaitables :
        \E o \in Outcomes(a) :
            /\ calcs' = [calcs EXCEPT ![a.pk] =
                            [@ EXCEPT !.terminated = TRUE,
                                      !.is_finished_ok = o.is_finished_ok,
                                      !.outputs = o.outputs]]
            /\ ctx' = IF a.how = "append"
                      THEN SetCtx(ctx, a.key,
                                  Append(IF a.key \in DOMAIN ctx THEN ctx[a.key] ELSE <<>>, a.pk))
                      ELSE SetCtx(ctx, a.key, a.pk)
            /\ awaitables' = awaitables \ {a}
    /\ UNCHANGED <<pc, inputs, outputs, ff_builds, evals>>

----------------------------------------------------------------------------
(* The calcfunctions of return_results *)

RECURSIVE Repeat(_, _)
\* list * n
Repeat(list, n) == IF n <= 0 THEN <<>> ELSE list \o Repeat(list, n - 1)

Min(a, b) == IF a < b THEN a ELSE b

\* list(zip(a, b)): as long as the shorter of the two
Zip(a, b) == [i \in 1..Min(Len(a), Len(b)) |-> <<a[i], b[i]>>]

RECURSIVE RemoveDummy(_)
\* lines 48-49: the pairs whose name is not 'M'
RemoveDummy(list) ==
    IF list = <<>> THEN <<>>
    ELSE (IF Head(list)[1] # "M" THEN <<Head(list)>> ELSE <<>>) \o RemoveDummy(Tail(list))

\* an unpacking that would take an empty list for two empty tuples
Unpack_empty(list) ==
    [ok |-> TRUE,
     symbols |-> [i \in 1..Len(list) |-> list[i][1]],
     positions |-> [i \in 1..Len(list) |-> list[i][2]]]

\* line 50, symbols, positions = list(zip(*symbols_positions)): the two
\* columns of the list; of an empty list zip(*[]) yields nothing, and the
\* assignment to two names raises ValueError
Unpack(list) ==
    [ok |-> list # <<>>,
     symbols |-> [i \in 1..Len(list) |-> list[i][1]],
     positions |-> [i \in 1..Len(list) |-> list[i][2]]]

\* get_molecule_from_restart_file: ok is FALSE when the unpacking of line 50
\* raises, having nothing to unpack
get_molecule_from_restart_file(structure_cif, molecule_folderdata, input_dict, molecule_dict) ==
    LET number_of_molecules == input_dict.number_of_molecules
        ff_atoms == load_yaml(molecule_dict.name, molecule_dict.forcefield)
        symbolsff == Repeat([i \in 1..Len(ff_atoms) |-> ff_atoms[i][1]], number_of_molecules)
        lines_positions == [i \in 1..molecule_folderdata.positions |-> i]
        symbols_positions == RemoveDummy(Zip(symbolsff, lines_positions))
        unpacked == Unpack(symbols_positions)
    IN  IF ~unpacked.ok
        THEN [ok |-> FALSE, value |-> EmptyDict]
        ELSE [ok |-> TRUE,
              value |-> [symbols |-> unpacked.symbols,
                         positions |-> unpacked.positions,
                         cell |-> structure_cif]]

\* the framework with the atoms of the molecule added
aiida_cif_merge(structure, loaded) == [framework |-> structure, molecule |-> loaded]

\* a lookup that would put a default in the place of an absent key
energy_lookup_default(general, key) ==
    [ok |-> TRUE, value |-> IF key \in DOMAIN general THEN general[key] ELSE <<0, key>>]

\* lines 88 and 92, out_dict['framework_1']['general'][key]: ok is FALSE when
\* the key is absent and the subscription raises KeyError
energy_lookup(general, key) ==
    [ok |-> key \in DOMAIN general,
     value |-> IF key \in DOMAIN general THEN general[key] ELSE <<0, key>>]

\* the energy lists after the stages 1..n of the loop of lines 84-88
RECURSIVE NvtEntries(_, _, _)
NvtEntries(temperature_list, nvt_out_dict, n) ==
    IF n = 0 THEN [ok |-> TRUE, description |-> <<>>, energies |-> [k \in Keys |-> <<>>]]
    ELSE LET before == NvtEntries(temperature_list, nvt_out_dict, n - 1)
             label == Format("RaspaNVT_{}", <<(n - 1) + 1>>)
         IN  IF ~before.ok \/ label \notin DOMAIN nvt_out_dict
                \/ \E k \in Keys : ~energy_lookup(nvt_out_dict[label].framework_1.general, k).ok
             THEN [before EXCEPT !.ok = FALSE]
             ELSE [ok |-> TRUE,
                   description |-> Append(before.description,
                                          Format("NVT simulation at {} K", <<temperature_list[n]>>)),
                   energies |-> [k \in Keys |->
                                   Append(before.energies[k],
                                          energy_lookup(nvt_out_dict[label].framework_1.general, k).value)]]

description_reversed(nvt, last) == <<last>> \o nvt

description_without_last(nvt, last) == nvt

\* lines 85 and 90: the descriptions, the minimization last
description_list(nvt, last) == Append(nvt, last)

\* get_output_parameters: ok is FALSE when a lookup raises KeyError
get_output_parameters(input_dict, min_out_dict, nvt_out_dict) ==
    LET number_of_molecules ==
            IF "number_of_molecules" \in DOMAIN input_dict THEN input_dict.number_of_molecules ELSE 1
        temperature_list == input_dict.temperature_list
        nvt == NvtEntries(temperature_list, nvt_out_dict, Len(temperature_list))
    IN  IF ~nvt.ok \/ \E k \in Keys : ~energy_lookup(min_out_dict.framework_1.general, k).ok
        THEN [ok |-> FALSE, value |-> EmptyDict]
        ELSE [ok |-> TRUE,
              value |-> Update([number_of_molecules |-> number_of_molecules,
                                description |-> description_list(nvt.description,
                                                                 Format("Final energy minimization", <<>>)),
                                energy_unit |-> "kJ/mol"],
                               [k \in Keys |-> Append(nvt.energies[k],
                                                      energy_lookup(min_out_dict.framework_1.general, k).value)])]

----------------------------------------------------------------------------
(* return_results *)

RECURSIVE NvtOutDict(_, _)
\* lines 275-277: the output_parameters of the first n nodes of raspa_nvt by
\* label, a later node replacing an earlier one of the same label
NvtOutDict(nodes, n) ==
    IF n = 0 THEN EmptyDict
    ELSE Update(NvtOutDict(nodes, n - 1),
                calcs[nodes[n]].label :> calcs[nodes[n]].outputs.output_parameters)

return_results ==
    /\ pc = "return_results"
    /\ awaitables = {}
    /\ LET min == calcs[ctx.raspa_min]
           mol == get_molecule_from_restart_file(inputs.structure, min.outputs.retrieved,
                                                 ctx.parameters, ctx.molecule)
           out1 == Update(outputs, [loaded_molecule |-> mol.value])
           out2 == Update(out1, [loaded_structure |->
                                    aiida_cif_merge(inputs.structure, out1.loaded_molecule)])
           nodes == ctx.raspa_nvt
           report == get_output_parameters(ctx.parameters, min.outputs.output_parameters,
                                           NvtOutDict(nodes, Len(nodes)))
       IN  IF "retrieved" \notin DOMAIN min.outputs \/ ~mol.ok
           THEN /\ pc' = "excepted"
                /\ UNCHANGED outputs
           ELSE IF \/ \E i \in 1..Len(nodes) : "output_parameters" \notin DOMAIN calcs[nodes[i]].outputs
                   \/ "output_parameters" \notin DOMAIN min.outputs
                   \/ ~report.ok
                THEN /\ pc' = "excepted"
                     /\ outputs' = out2
                ELSE /\ pc' = "finished"
                     /\ outputs' = Update(out2, [output_parameters |-> report.value])
    /\ UNCHANGED <<inputs, ctx, awaitables, calcs, ff_builds, evals>>

Next ==
    \/ validate
    \/ setup
    \/ should_run_nvt
    \/ run_raspa_nvt
    \/ run_raspa_min
    \/ return_results
    \/ resolve

Spec == Init /\ [][Next]_vars

----------------------------------------------------------------------------
(* Vocabulary of the properties *)

Started == "parameters" \in DOMAIN ctx

Schedule == ctx.parameters.temperature_list

NvtLabel(k) == Format("RaspaNVT_{}", <<k>>)

MinLabel == Format("RaspaMin", <<>>)

\* the restart input a sub-process was submitted with: <<>> when it has none
RestartInput(raspa) ==
    IF "retrieved_parent_folder" \in DOMAIN raspa THEN <<raspa.retrieved_parent_folder>> ELSE <<>>

\* the stages submitted so far are NVT stages 1..n in order, then the minimization
StagesInOrder ==
    /\ Len(calcs) <= Len(Schedule) + 1
    /\ \A i \in 1..Len(calcs) :
        calcs[i].label = IF i <= Len(Schedule) THEN NvtLabel(i) ELSE MinLabel

\* every stage after the first restarts from the folder of the stage before it
RestartChain ==
    \A i \in 2..Len(calcs) :
        RestartInput(calcs[i].inputs.raspa) = <<Folder(i - 1, calcs[i - 1].outputs.retrieved.positions)>>

Pending == {i \in 1..Len(calcs) : ~calcs[i].terminated}

\* the content of a Dict node: what it copied, or for a node that had only
\* kept the dictionary it was made from, that dictionary as it is now
get_dict(node) == IF node.copied THEN node.attributes ELSE ctx.raspa_param

Snapshot(i) == get_dict(calcs[i].inputs.raspa.parameters)

Report == outputs.output_parameters

----------------------------------------------------------------------------
(* C1, as stated: when every stage resolves successfully the work chain
   submits NVT stages 1..n and then one minimization, NVT stage 1 with no
   restart input, every later stage with the restart folder of the stage
   before it. *)
C1_FirstStageWithoutRestart ==
    (Started /\ Anomalies = 0) =>
        /\ StagesInOrder
        /\ RestartChain
        /\ Len(calcs) >= 1 => RestartInput(calcs[1].inputs.raspa) = <<>>
        /\ pc = "finished" => Len(calcs) = Len(Schedule) + 1

(* C1, amended: the same, except that NVT stage 1 is submitted with the
   restart input the caller passed as raspa_base.raspa.retrieved_parent_folder,
   and with none when the caller passed none. *)
C1_StagesChained ==
    (Started /\ Anomalies = 0) =>
        /\ StagesInOrder
        /\ RestartChain
        /\ Len(calcs) >= 1 =>
              RestartInput(calcs[1].inputs.raspa) = RestartInput(inputs.raspa_base.raspa)
        /\ pc = "finished" => Len(calcs) = Len(Schedule) + 1

C1_Witness ==
    /\ pc = "finished"
    /\ Anomalies = 0
    /\ Len(Schedule) = 6
    /\ Len(calcs) = 7
    /\ RestartInput(calcs[1].inputs.raspa) = <<>>

(* C2: while a submitted sub-process has not terminated no other one is
   pending, and the work chain takes no step: its position, its counter, its
   working document, its evaluations of the loop guard and the list of
   submitted stages stay as they are. *)
C2_Serialized ==
    [][/\ Cardinality(Pending') <= 1
       /\ Pending # {} =>
            /\ pc' = pc
            /\ Len(calcs') = Len(calcs)
            /\ ctx'.count = ctx.count
            /\ ctx'.raspa_param = ctx.raspa_param
            /\ ctx'.inp = ctx.inp
            /\ evals' = evals
            /\ outputs' = outputs]_vars

C2_Witness ==
    /\ Len(calcs) = 3
    /\ Pending = {3}
    /\ calcs[3].label = MinLabel
    /\ pc = "return_results"

(* C3: an evaluation of should_run_nvt applies the CreateNumberOfMolecules
   override if and only if count = 1 (never at count = 0), the document holds 0
   from then on, and in a run with a schedule of length >= 1 that has left the
   loop the override was applied exactly once. *)
C3_OverrideOnceAtCountOne ==
    LET fired == {i \in 1..Len(evals) : evals[i].override}
    IN  /\ \A i \in 1..Len(evals) : evals[i].override <=> evals[i].count = 1
        /\ Cardinality(fired) <= 1
        /\ Started /\ "raspa_param" \in DOMAIN ctx =>
              (ctx.raspa_param.Component[ctx.molecule.name].CreateNumberOfMolecules
                  = IF fired # {} THEN 0 ELSE ctx.parameters.number_of_molecules)
        /\ (pc \in {"run_raspa_min", "return_results", "finished"} /\ Len(Schedule) >= 1) =>
              Cardinality(fired) = 1

C3_Witness ==
    /\ pc = "finished"
    /\ Len(Schedule) = 1
    /\ Len(evals) = 2
    /\ ~evals[1].override
    /\ evals[2].override
    /\ ctx.parameters.number_of_molecules = 2

(* C4, as stated: once a submitted stage has terminated as failed, no later
   stage is submitted and no output is emitted. *)
C4_FailureAborts ==
    \A i \in 1..Len(calcs) :
        (calcs[i].terminated /\ ~calcs[i].is_finished_ok) =>
            /\ Len(calcs) = i
            /\ DOMAIN outputs = {}

(* C5: the document submitted for NVT stage k has ExternalTemperature = Tk
   and the stage is labelled RaspaNVT_k; the document of stage 1 has
   CreateNumberOfMolecules = number_of_molecules, the document of every later
   NVT stage has CreateNumberOfMolecules = 0. *)
C5_NvtSnapshots ==
    Started =>
        \A k \in 1..Len(calcs) :
            k <= Len(Schedule) =>
                /\ calcs[k].label = NvtLabel(k)
                /\ Snapshot(k).System.framework_1.ExternalTemperature = Schedule[k]
                /\ Snapshot(k).Component[ctx.molecule.name].CreateNumberOfMolecules
                      = IF k = 1 THEN ctx.parameters.number_of_molecules ELSE 0

C5_Witness ==
    /\ Started
    /\ Schedule = <<300, 100>>
    /\ ctx.parameters.number_of_molecules = 2
    /\ Len(calcs) = 3
    /\ Snapshot(1).System.framework_1.ExternalTemperature = 300
    /\ Snapshot(2).System.framework_1.ExternalTemperature = 100
    /\ Snapshot(2).Component[ctx.molecule.name].CreateNumberOfMolecules = 0

(* C6: in the report of a completed run the description list and each of the
   six energy lists have len(temperature_list) + 1 entries. *)
C6_ReportLengths ==
    pc = "finished" =>
        /\ Len(Report.description) = Len(Schedule) + 1
        /\ \A k \in Keys : Len(Report[k]) = Len(Schedule) + 1

C6_Witness ==
    /\ pc = "finished"
    /\ Len(Schedule) = 2
    /\ Len(Report.description) = 3

(* C7: the report of a completed run is in submission order: entry i of the
   descriptions is 'NVT simulation at Ti K' and entry i of every energy list is
   the value of the i-th submitted NVT stage; the last entry is 'Final energy
   minimization' with the values of the minimization. *)
C7_ReportOrder ==
    pc = "finished" =>
        LET n == Len(Schedule)
        IN  /\ \A i \in 1..n :
                /\ Report.description[i] = Format("NVT simulation at {} K", <<Schedule[i]>>)
                /\ calcs[i].label = NvtLabel(i)
                /\ \A k \in Keys :
                      Report[k][i] = calcs[i].outputs.output_parameters.framework_1.general[k]
            /\ Report.description[n + 1] = Format("Final energy minimization", <<>>)
            /\ calcs[n + 1].label = MinLabel
            /\ \A k \in Keys :
                  Report[k][n + 1] = calcs[n + 1].outputs.output_parameters.framework_1.general[k]

C7_Witness ==
    /\ pc = "finished"
    /\ Schedule = <<300, 100>>
    /\ Report.description = <<Format("NVT simulation at {} K", <<300>>),
                              Format("NVT simulation at {} K", <<100>>),
                              Format("Final energy minimization", <<>>)>>
    /\ Report["energy_host/ads_tot_final"][2] = <<2, "energy_host/ads_tot_final">>

\* a parameters Dict with a value of the wrong type, or with an unknown key
Malformed(p) ==
    \/ "temperature_list" \in DOMAIN p /\ p.temperature_list.type # "list"
    \/ "mc_steps" \in DOMAIN p /\ p.mc_steps.type # "int"
    \/ "number_of_molecules" \in DOMAIN p /\ p.number_of_molecules.type # "int"
    \/ "no_such_field" \in DOMAIN p

(* C8: a parameters Dict with a mistyped or an unknown field is rejected when
   the inputs are validated: the run never gets past it, and no stage is
   submitted. *)
C8_MalformedRejected ==
    Malformed(inputs.parameters) =>
        /\ pc \in {"created", "invalid_inputs"}
        /\ ~Started
        /\ calcs = <<>>

C8_Witness ==
    /\ pc = "invalid_inputs"
    /\ DOMAIN inputs.parameters = {"mc_steps"}
    /\ inputs.parameters.mc_steps.type = "str"

(* C9, as stated: every validated parameters Dict has a temperature_list of
   length >= 1, so run_raspa_min is never reached with count = 0. *)
C9_ScheduleNotEmpty ==
    Started =>
        /\ Len(Schedule) >= 1
        /\ ~(pc = "run_raspa_min" /\ ctx.count = 0)

(* C10, as stated: provided every sub-process resolves successfully, every
   run that passed validation goes on to Done: it does not end in an
   exception, the one other position of the outline that nothing follows. *)
C10_DoneUnlessFailure == pc = "excepted" => Anomalies > 0

\* the atoms the force field declares for the molecule of the run
DeclaredAtoms == load_yaml(ctx.molecule.name, ctx.molecule.forcefield)

DummyAtoms == {i \in 1..Len(DeclaredAtoms) : DeclaredAtoms[i][1] = "M"}

\* the minimization has terminated and left a retrieved folder
MinFolderKnown ==
    /\ "raspa_min" \in DOMAIN ctx
    /\ "retrieved" \in DOMAIN calcs[ctx.raspa_min].outputs

MinFolder == calcs[ctx.raspa_min].outputs.retrieved

(* C11, as stated: whatever restart file the minimization returns, the
   extracted molecule has no atom with symbol 'M' and has exactly
   number_of_molecules x (declared atoms - dummy atoms) atoms. *)
C11_AtomCount ==
    "loaded_molecule" \in DOMAIN outputs =>
        /\ \A i \in 1..Len(outputs.loaded_molecule.symbols) : outputs.loaded_molecule.symbols[i] # "M"
        /\ Len(outputs.loaded_molecule.symbols)
              = ctx.parameters.number_of_molecules * (Len(DeclaredAtoms) - Cardinality(DummyAtoms))

(* C12: when the restart file of the minimization has no adsorbate
   position line, the geometry extraction raises and the run ends excepted
   having emitted none of loaded_molecule, loaded_structure and
   output_parameters. *)
C12_NoLinesNoOutputs ==
    (MinFolderKnown /\ MinFolder.positions = 0) =>
        /\ pc \in {"return_results", "excepted"}
        /\ DOMAIN outputs = {}

\* return_results has run on a restart file without position lines
C12_Witness ==
    /\ MinFolderKnown
    /\ MinFolder.positions = 0
    /\ pc = "excepted"
    /\ "output_parameters" \in DOMAIN calcs[ctx.raspa_min].outputs

\* the terminated sub-process i returned output parameters that lack one of
\* the six energies
LacksEnergy(i) ==
    /\ "output_parameters" \in DOMAIN calcs[i].outputs
    /\ Keys \ DOMAIN calcs[i].outputs.output_parameters.framework_1.general # {}

(* C13: when the output parameters of an NVT stage or of the minimization
   lack one of the six energies, the run does not finish and emits no
   output_parameters: no default takes the place of the missing energy. *)
C13_MissingEnergyFatal ==
    (\E i \in 1..Len(calcs) : LacksEnergy(i)) =>
        /\ pc # "finished"
        /\ "output_parameters" \notin DOMAIN outputs

\* the assembly of the report has been reached and has failed on an NVT stage
C13_Witness ==
    /\ pc = "excepted"
    /\ "loaded_structure" \in DOMAIN outputs
    /\ "raspa_min" \in DOMAIN ctx
    /\ \E i \in 1..Len(calcs) : i # ctx.raspa_min /\ LacksEnergy(i)

\* setup has run to its end
SetupDone == "count" \in DOMAIN ctx

(* C14: the force field files are built once in a run, by setup and so
   before the first sub-process is submitted, and every NVT stage and the
   minimization are submitted with exactly the files that were built. *)
C14_ForceFieldBuiltOnce ==
    /\ ff_builds = (IF SetupDone THEN 1 ELSE 0)
    /\ Len(calcs) > 0 => SetupDone
    /\ \A i \in 1..Len(calcs) :
          /\ "file" \in DOMAIN calcs[i].inputs.raspa
          /\ calcs[i].inputs.raspa.file = FFBuilder(get_ff_parameters(ctx.molecule, ctx.parameters))

\* two NVT stages and the minimization have been submitted
C14_Witness ==
    /\ ff_builds = 1
    /\ Len(calcs) = 3
    /\ calcs[3].label = MinLabel

\* the general settings the minimization sets
MinimizationKeys ==
    {"SimulationType", "NumberOfInitializationCycles", "NumberOfCycles", "PrintEvery",
     "MaximumNumberOfMinimizationSteps", "RMSGradientTolerance", "MaxGradientTolerance"}

(* C15: the document the minimization is submitted with has SimulationType
   'Minimization', NumberOfInitializationCycles 0, NumberOfCycles 1,
   PrintEvery 1, MaximumNumberOfMinimizationSteps 10000 and both gradient
   tolerances 1e-6, and every other field as the loop left it: the fields of
   the document of the last NVT stage, with ExternalTemperature the last
   temperature of the schedule and CreateNumberOfMolecules 0, for a schedule
   of one temperature as for a longer one. *)
C15_MinimizationSnapshot ==
    \A i \in 1..Len(calcs) :
        calcs[i].label = MinLabel =>
            /\ i = Len(Schedule) + 1
            /\ i >= 2
            /\ LET doc == Snapshot(i)
                   last == Snapshot(i - 1)
                   name == ctx.molecule.name
               IN  /\ doc.GeneralSettings.SimulationType = "Minimization"
                   /\ doc.GeneralSettings.NumberOfInitializationCycles = 0
                   /\ doc.GeneralSettings.NumberOfCycles = 1
                   /\ doc.GeneralSettings.PrintEvery = PyInt(1)
                   /\ doc.GeneralSettings.MaximumNumberOfMinimizationSteps = 10000
                   /\ doc.GeneralSettings.RMSGradientTolerance = "1e-06"
                   /\ doc.GeneralSettings.MaxGradientTolerance = "1e-06"
                   /\ DOMAIN doc.GeneralSettings = DOMAIN last.GeneralSettings \cup MinimizationKeys
                   /\ \A k \in DOMAIN last.GeneralSettings \ MinimizationKeys :
                          doc.GeneralSettings[k] = last.GeneralSettings[k]
                   /\ DOMAIN doc = DOMAIN last
                   /\ doc.System = last.System
                   /\ doc.System.framework_1.ExternalTemperature = Schedule[Len(Schedule)]
                   /\ doc.Component =
                          (name :> Update(last.Component[name], [CreateNumberOfMolecules |-> 0]))
                   /\ doc.Component[name].CreateNumberOfMolecules = 0

\* the minimization after a schedule of one temperature, whose only NVT stage
\* created two molecules
C15_Witness ==
    /\ Started
    /\ Len(Schedule) = 1
    /\ Len(calcs) = 2
    /\ calcs[2].label = MinLabel
    /\ Snapshot(1).Component[ctx.molecule.name].CreateNumberOfMolecules = 2

\* a working document without the two fields an NVT iteration may assign
WithoutLoopFields(c) ==
    LET doc == c.raspa_param
        name == c.molecule.name
        framework == doc.System.framework_1
    IN  [GeneralSettings |-> doc.GeneralSettings,
         System |-> [k \in DOMAIN doc.System \ {"framework_1"} |-> doc.System[k]],
         framework_1 |-> [k \in DOMAIN framework \ {"ExternalTemperature"} |-> framework[k]],
         Component |-> [m \in DOMAIN doc.Component |->
                          [k \in DOMAIN doc.Component[m] \ {"CreateNumberOfMolecules"} |->
                              doc.Component[m][k]]],
         others |-> [k \in DOMAIN doc \ {"GeneralSettings", "System", "Component"} |-> doc[k]]]

\* the inputs of the next sub-process without the restart linkage, the
\* submitted document and the labels
WithoutStageFields(i) ==
    [raspa |-> [k \in DOMAIN i.raspa \ {"retrieved_parent_folder", "parameters"} |-> i.raspa[k]],
     metadata |-> [k \in DOMAIN i.metadata \ {"label", "call_link_label"} |-> i.metadata[k]]]

CreateNumber(c) == c.raspa_param.Component[c.molecule.name].CreateNumberOfMolecules

\* what a step of an NVT iteration leaves alone
C16_IterationFrame ==
    /\ WithoutLoopFields(ctx') = WithoutLoopFields(ctx)
    /\ CreateNumber(ctx') # CreateNumber(ctx) =>
          /\ pc = "should_run_nvt"
          /\ ctx.count = 1
          /\ CreateNumber(ctx') = 0
    /\ DOMAIN ctx' \ DOMAIN ctx \subseteq {"raspa_nvt"}
    /\ \A k \in DOMAIN ctx \ {"raspa_param", "inp", "count", "raspa_nvt"} : ctx'[k] = ctx[k]
    /\ WithoutStageFields(ctx'.inp) = WithoutStageFields(ctx.inp)
    /\ "parameters" \in DOMAIN ctx'.inp.raspa =>
          \/ "parameters" \in DOMAIN ctx.inp.raspa /\ ctx'.inp.raspa.parameters = ctx.inp.raspa.parameters
          \/ ctx'.inp.raspa.parameters = Dict(ctx'.raspa_param)
    /\ outputs' = outputs
    /\ ff_builds' = ff_builds

(* C16: no step after setup changes the validated parameters, the molecule
   or the structure; a step of an NVT iteration changes in the working
   document only ExternalTemperature, and CreateNumberOfMolecules once, when
   should_run_nvt is evaluated at count 1, and outside the document only the
   restart input, the labels and the submitted copy of the document in the
   inputs of the next stage, count, and the list of NVT stages. *)
C16_Frame ==
    [][SetupDone =>
          /\ inputs' = inputs
          /\ ctx'.parameters = ctx.parameters
          /\ ctx'.molecule = ctx.molecule
          /\ pc \in {"should_run_nvt", "run_raspa_nvt"} => C16_IterationFrame]_vars

\* the second NVT stage has been submitted: the temperature has changed and
\* the override has been applied
C16_Witness ==
    /\ SetupDone
    /\ ctx.count = 2
    /\ Len(calcs) = 2
    /\ CreateNumber(ctx) = 0
    /\ ctx.parameters.number_of_molecules = 2
    /\ Snapshot(1).System.framework_1.ExternalTemperature
          # ctx.raspa_param.System.framework_1.ExternalTemperature

(* C17, as stated: in the document of the NVT stages PrintEvery is an
   integer, the hundredth part of mc_steps, also when mc_steps is not a
   multiple of 100. *)
C17_PrintEveryInteger ==
    \A i \in 1..Len(calcs) :
        Snapshot(i).GeneralSettings.SimulationType = "MonteCarlo" =>
            LET PrintEvery == Snapshot(i).GeneralSettings.PrintEvery
            IN  /\ PrintEvery.type = "int"
                /\ PrintEvery.den = 1
                /\ PrintEvery.num = ctx.parameters.mc_steps \div 100

\* the NVT stages the engine has put in the context
NvtStages == IF "raspa_nvt" \in DOMAIN ctx THEN ctx.raspa_nvt ELSE <<>>

\* raspa_nvt[count - 1] exists without wrapping around and is the sub-process
\* submitted last
PreviousIsLast ==
    /\ 0 <= ctx.count - 1
    /\ ctx.count - 1 < Len(NvtStages)
    /\ NvtStages[(ctx.count - 1) + 1] = Len(calcs)
    /\ calcs[Len(calcs)].label = NvtLabel(ctx.count)

(* C18: whenever should_run_nvt is evaluated, run_raspa_nvt entered or
   run_raspa_min entered, count is between 0 and the length of the schedule
   and is the number of NVT stages in the context; so temperature_list[count]
   exists in run_raspa_nvt, and raspa_nvt[count - 1] exists and is the NVT
   stage submitted last, in run_raspa_nvt when count > 0 and in run_raspa_min
   when the schedule is not empty. *)
C18_CountInRange ==
    (SetupDone /\ awaitables = {} /\ pc \in {"should_run_nvt", "run_raspa_nvt", "run_raspa_min"}) =>
        /\ 0 <= ctx.count
        /\ ctx.count <= Len(Schedule)
        /\ ctx.count = Len(NvtStages)
        /\ pc = "run_raspa_nvt" =>
              /\ ctx.count < Len(Schedule)
              /\ ctx.count > 0 => PreviousIsLast
        /\ (pc = "run_raspa_min" /\ Len(Schedule) >= 1) =>
              /\ ctx.count = Len(Schedule)
              /\ PreviousIsLast

\* run_raspa_min is entered after a schedule of two temperatures
C18_Witness ==
    /\ SetupDone
    /\ awaitables = {}
    /\ pc = "run_raspa_min"
    /\ Len(Schedule) = 2
    /\ ctx.count = 2

\* the sub-processes submitted by run_raspa_nvt
NvtCalcs == {i \in 1..Len(calcs) : calcs[i].label # MinLabel}

(* C19: the labels of the NVT stages of a run are pairwise distinct, the
   k-th submitted stage being labelled RaspaNVT_k; in a finished run the
   mapping return_results builds from the labels has exactly the keys
   RaspaNVT_1 .. RaspaNVT_n that get_output_parameters looks up, and the key
   RaspaNVT_k maps to the output parameters of the k-th submitted stage. *)
C19_LabelsDistinct ==
    /\ \A i \in NvtCalcs : \A j \in NvtCalcs : i # j => calcs[i].label # calcs[j].label
    /\ \A i \in NvtCalcs : i <= Len(Schedule) /\ calcs[i].label = NvtLabel(i)
    /\ pc = "finished" =>
          LET n == Len(Schedule)
              nvt_out_dict == NvtOutDict(ctx.raspa_nvt, Len(ctx.raspa_nvt))
          IN  /\ NvtCalcs = 1..n
              /\ ctx.raspa_nvt = [i \in 1..n |-> i]
              /\ DOMAIN nvt_out_dict = {NvtLabel(i) : i \in 1..n}
              /\ \A i \in 1..n : nvt_out_dict[NvtLabel(i)] = calcs[i].outputs.output_parameters

\* a run of two NVT stages has finished
C19_Witness ==
    /\ pc = "finished"
    /\ Len(Schedule) = 2
    /\ Cardinality(NvtCalcs) = 2

(* C20: a stage is submitted with the working document as it is when the
   stage is submitted, and no later step, whatever it assigns in the working
   document, changes the document of a stage already submitted. *)
C20_SnapshotsFrozen ==
    [][/\ \A i \in 1..Len(calcs) : Snapshot(i)' = Snapshot(i)
       /\ \A i \in 1..Len(calcs') : i > Len(calcs) => Snapshot(i)' = ctx'.raspa_param]_vars

\* three stages submitted, the working document mutated between them and
\* after the first
C20_Witness ==
    /\ Len(calcs) = 3
    /\ Snapshot(1) # Snapshot(2)
    /\ Snapshot(2) # Snapshot(3)
    /\ Snapshot(1) # ctx.raspa_param
    /\ Snapshot(3) = ctx.raspa_param
====
